---------------------------- MODULE Spec2Model ----------------------------
(***************************************************************************)
(* Model of app.py: the quiz session state kept in st.session_state, and   *)
(* the geometry functions draw_triangle, draw_parallelogram,               *)
(* draw_rectangle and draw_circle with the shape explorer that calls them. *)
(*                                                                         *)
(* Numbers.  Lengths and coordinates are integers in hundredths (4.0 is    *)
(* 400).  Sines and cosines are integers in ten-thousandths, read from a   *)
(* table of whole degrees; quotients are truncated.  Angles are whole      *)
(* degrees, or the value math.degrees(math.atan2(y, x)) kept as the pair   *)
(* (y, x).                                                                 *)
(***************************************************************************)
EXTENDS Integers, Sequences, FiniteSets

VARIABLES
    \* ---- st.session_state (tab 3) ----
    score,        \* st.session_state['score']
    total,        \* st.session_state['total']
    answered,     \* the flags answered_name, answered_1, answered_2, answered_3
    \* ---- widgets of tab 3 ----
    quiz_choice,  \* st.radio "보기"
    answer,       \* st.selectbox of the naming quiz
    ox,           \* st.radio of each OX question, keys ox1..ox3
    \* ---- what the last script run did ----
    clicked,      \* the button that was pressed in the run, "none" if none was
    feedback,     \* the message the pressed button's handler showed
    outcome,      \* per flag: the message of the submission that set it
    \* ---- shape explorer (tab 1) ----
    shape,        \* st.selectbox of the explorer
    quad_type,    \* st.radio "종류"
    base, alpha, beta,      \* triangle sliders
    width, height, angle,   \* quadrilateral sliders
    radius,                 \* circle slider
    coords,       \* what the geometry function returned
    trace,        \* the closed polyline handed to go.Scatter
    notice,       \* the st.warning / st.info / st.success of the explorer
    gpc           \* "input": widgets set, "shown": the right column has run

quizvars == <<score, total, answered, quiz_choice, answer, ox, clicked, feedback, outcome>>
geomvars == <<shape, quad_type, base, alpha, beta, width, height, angle, radius,
              coords, trace, notice, gpc>>
vars == <<quizvars, geomvars>>

----------------------------------------------------------------------------
(* Quiz data *)

Shapes == {"triangle", "quad", "circle"}
Placeholder == "placeholder"
AnswerOptions == {Placeholder} \cup Shapes

\* ox_qs: the correct answer of each OX question
ox_qs == <<TRUE, TRUE, FALSE>>
OxIds == 1..Len(ox_qs)
OxKey == <<"answered_1", "answered_2", "answered_3">>
OxButton == <<"submit1", "submit2", "submit3">>
Keys == {"answered_name"} \cup {OxKey[i] : i \in OxIds}
Buttons == {"check_name"} \cup {OxButton[i] : i \in OxIds}

\* the flag a button's handler reads and sets
KeyOf(b) == IF b = "check_name" THEN "answered_name"
            ELSE OxKey[CHOOSE i \in OxIds : OxButton[i] = b]

\* whether the widgets hold the correct answer for the button's question
IsCorrect(b) == IF b = "check_name" THEN answer = quiz_choice
                ELSE LET i == CHOOSE j \in OxIds : OxButton[j] = b
                     IN  (ox[i] = "O") = ox_qs[i]


----------------------------------------------------------------------------
(* Arithmetic of the geometry functions *)

Abs(n) == IF n < 0 THEN -n ELSE n

\* a / b for b # 0, truncated towards zero
Quot(a, b) == IF (a < 0) = (b < 0) THEN Abs(a) \div Abs(b) ELSE -(Abs(a) \div Abs(b))

\* 10000 * sin(d degrees) for d = 0..90
SinTable == <<
    0, 175, 349, 523, 698, 872, 1045, 1219, 1392, 1564,
    1736, 1908, 2079, 2250, 2419, 2588, 2756, 2924, 3090, 3256,
    3420, 3584, 3746, 3907, 4067, 4226, 4384, 4540, 4695, 4848,
    5000, 5150, 5299, 5446, 5592, 5736, 5878, 6018, 6157, 6293,
    6428, 6561, 6691, 6820, 6947, 7071, 7193, 7314, 7431, 7547,
    7660, 7771, 7880, 7986, 8090, 8192, 8290, 8387, 8480, 8572,
    8660, 8746, 8829, 8910, 8988, 9063, 9135, 9205, 9272, 9336,
    9397, 9455, 9511, 9563, 9613, 9659, 9703, 9744, 9781, 9816,
    9848, 9877, 9903, 9925, 9945, 9962, 9976, 9986, 9994, 9998,
    10000 >>

\* math.radians(d), in ten-thousandths of a radian
Radians(d) == Quot(d * 31416, 180)

\* math.sin(math.radians(d)) and math.cos(math.radians(d)), in ten-thousandths
SinDeg(d) == LET m == d % 360
             IN  IF m <= 90 THEN SinTable[m + 1]
                 ELSE IF m <= 180 THEN SinTable[180 - m + 1]
                 ELSE IF m <= 270 THEN -SinTable[m - 180 + 1]
                 ELSE -SinTable[360 - m + 1]

CosDeg(d) == SinDeg(d + 90)

\* An angle in degrees: a whole number, or math.degrees(math.atan2(y, x))
Deg(d) == [tag |-> "deg", a |-> d, b |-> 0]
Atan2Deg(y, x) == [tag |-> "atan2", a |-> y, b |-> x]

\* math.tan(math.radians(angle_deg)) as the fraction <<numerator, denominator>>
TanOf(angle_deg) ==
    IF angle_deg.tag = "deg" THEN <<SinDeg(angle_deg.a), CosDeg(angle_deg.a)>>
    ELSE IF angle_deg.a = 0 /\ angle_deg.b = 0 THEN <<0, 1>>
    ELSE <<angle_deg.a, angle_deg.b>>

\* What a geometry function hands back: coordinates, None, or a raised exception
Coords(pts) == [kind |-> "coords", pts |-> pts]
None == [kind |-> "None", pts |-> <<>>]
Raised(e) == [kind |-> e, pts |-> <<>>]

----------------------------------------------------------------------------
(* The geometry functions *)

\* the test that the triangle does not exist (and a variant that lets
\* gamma = 0 through)
NoTriangle_Strict(gamma) == gamma < 0
NoTriangle(gamma) == gamma <= 0

draw_triangle(base_, alpha_deg, beta_deg) ==
    LET gamma_deg == 180 - alpha_deg - beta_deg
        gamma == Radians(gamma_deg)
    IN  IF NoTriangle(gamma) THEN None
        \* c / math.sin(gamma) raises when the sine is 0.0, which is so for
        \* gamma = 0 only: math.sin(math.radians(180)) is 1.2e-16.  The table
        \* has 0 there, so the model is of gamma_deg < 180 (positive angles).
        ELSE IF SinDeg(gamma_deg) = 0 THEN Raised("ZeroDivisionError")
        ELSE LET c == base_
                 s == Quot(c * 10000, SinDeg(gamma_deg))
                 a == Quot(s * SinDeg(alpha_deg), 10000)
                 b == Quot(s * SinDeg(beta_deg), 10000)
                 A == <<0, 0>>
                 B == <<c, 0>>
                 C == <<Quot(b * CosDeg(alpha_deg), 10000), Quot(b * SinDeg(alpha_deg), 10000)>>
             IN  Coords(<<A, B, C>>)

\* abs(math.tan(angle)) > 1e-6, for the tangent as a fraction n / d:
\* n * 10^6 > d, which for whole numbers is n > d \div 10^6 (and a variant
\* without the test)
TanIsLarge_Always(t) == TRUE
TanIsLarge(t) == Abs(t[1]) > Abs(t[2]) \div 1000000

draw_parallelogram(width_, height_, angle_deg) ==
    LET t == TanOf(angle_deg)
    IN  IF TanIsLarge(t) /\ t[1] = 0 THEN Raised("ZeroDivisionError")
        ELSE LET A == <<0, 0>>
                 B == <<width_, 0>>
                 dx == IF TanIsLarge(t) THEN Quot(height_ * t[2], t[1]) ELSE 0
                 D == <<dx, height_>>
                 C == <<width_ + dx, height_>>
             IN  Coords(<<A, B, C, D>>)

\* a variant that refuses lengths <= 0
draw_rectangle_Validating(width_, height_) ==
    IF width_ <= 0 \/ height_ <= 0 THEN Raised("InvalidDimension")
    ELSE Coords(<< <<0, 0>>, <<width_, 0>>, <<width_, height_>>, <<0, height_>> >>)

draw_rectangle(width_, height_) ==
    LET A == <<0, 0>>
        B == <<width_, 0>>
        C == <<width_, height_>>
        D == <<0, height_>>
    IN  Coords(<<A, B, C, D>>)

\* np.linspace(0, 2 * math.pi, num_points)[k], k = 0 .. num_points - 1, to the
\* nearest whole degree
Theta(k, num_points) ==
    IF num_points = 1 THEN 0
    ELSE (360 * k * 2 + (num_points - 1)) \div (2 * (num_points - 1))

draw_circle(radius_, num_points) ==
    Coords([k \in 1..num_points |->
              <<Quot(radius_ * CosDeg(Theta(k - 1, num_points)), 10000),
                Quot(radius_ * SinDeg(Theta(k - 1, num_points)), 10000)>>])

\* the default of draw_circle's num_points
NumPoints == 80

----------------------------------------------------------------------------
(* Tab 3: the quiz.  Every action is one run of the script, started by the  *)
(* interaction it is named after.                                           *)

\* the state of the shape explorer after a run with its widgets at their defaults
ExplorerAtDefaults ==
    /\ shape = "triangle" /\ quad_type = "none"
    /\ base = 400 /\ alpha = 50 /\ beta = 60
    /\ width = 0 /\ height = 0 /\ angle = Deg(0) /\ radius = 0
    /\ coords = draw_triangle(400, 50, 60)
    /\ trace = coords.pts \o <<coords.pts[1]>>
    /\ notice = "info"
    /\ gpc = "shown"

\* the state of the quiz after the first run of a session
FreshQuiz ==
    /\ score = 0
    /\ total = 0
    /\ answered = [k \in Keys |-> FALSE]
    /\ quiz_choice = "triangle"
    /\ answer = Placeholder
    /\ ox = [i \in OxIds |-> "O"]
    /\ clicked = "none"
    /\ feedback = "none"
    /\ outcome = [k \in Keys |-> "none"]

Init == FreshQuiz /\ ExplorerAtDefaults

\* st.radio "보기" is moved to c
SelectQuizChoice(c) ==
    /\ c # quiz_choice
    /\ quiz_choice' = c
    /\ clicked' = "none" /\ feedback' = "none"
    /\ UNCHANGED <<score, total, answered, answer, ox, outcome, geomvars>>

\* the selectbox of the naming quiz is moved to a
SelectAnswer(a) ==
    /\ a # answer
    /\ answer' = a
    /\ clicked' = "none" /\ feedback' = "none"
    /\ UNCHANGED <<score, total, answered, quiz_choice, ox, outcome, geomvars>>

\* the radio of OX question i is moved to c
SelectOx(i, c) ==
    /\ c # ox[i]
    /\ ox' = [ox EXCEPT ![i] = c]
    /\ clicked' = "none" /\ feedback' = "none"
    /\ UNCHANGED <<score, total, answered, quiz_choice, answer, outcome, geomvars>>

\* a run started by anything else (a tab-2 button, an explorer widget)
Rerun ==
    /\ clicked' = "none" /\ feedback' = "none"
    /\ UNCHANGED <<score, total, answered, quiz_choice, answer, ox, outcome, geomvars>>

\* ---- faulty variants of the handler of "정답 확인": the placeholder is not
\* counted; a repeated press clears the session; the duplicate guard is missing
CheckName_SkipPlaceholder ==
    /\ clicked' = "check_name"
    /\ IF answer = Placeholder
       THEN /\ feedback' = "info"
            /\ UNCHANGED <<score, total, answered, outcome>>
       ELSE IF ~answered["answered_name"]
       THEN /\ total' = total + 1
            /\ answered' = [answered EXCEPT !["answered_name"] = TRUE]
            /\ IF answer = quiz_choice
               THEN /\ score' = score + 1
                    /\ feedback' = "success"
                    /\ outcome' = [outcome EXCEPT !["answered_name"] = "success"]
               ELSE /\ score' = score
                    /\ feedback' = "error"
                    /\ outcome' = [outcome EXCEPT !["answered_name"] = "error"]
       ELSE /\ feedback' = "info"
            /\ UNCHANGED <<score, total, answered, outcome>>
    /\ UNCHANGED <<quiz_choice, answer, ox, geomvars>>

CheckName_ResetsOnRepeat ==
    /\ clicked' = "check_name"
    /\ IF ~answered["answered_name"]
       THEN /\ total' = total + 1
            /\ answered' = [answered EXCEPT !["answered_name"] = TRUE]
            /\ IF answer = quiz_choice
               THEN /\ score' = score + 1
                    /\ feedback' = "success"
                    /\ outcome' = [outcome EXCEPT !["answered_name"] = "success"]
               ELSE /\ score' = score
                    /\ feedback' = "error"
                    /\ outcome' = [outcome EXCEPT !["answered_name"] = "error"]
       ELSE /\ feedback' = "info"
            /\ score' = 0
            /\ total' = 0
            /\ answered' = [k \in Keys |-> FALSE]
            /\ outcome' = [k \in Keys |-> "none"]
    /\ UNCHANGED <<quiz_choice, answer, ox, geomvars>>

CheckName_NoGuard ==
    /\ clicked' = "check_name"
    /\ total' = total + 1
    /\ answered' = [answered EXCEPT !["answered_name"] = TRUE]
    /\ IF answer = quiz_choice
       THEN /\ score' = score + 1
            /\ feedback' = "success"
            /\ outcome' = [outcome EXCEPT !["answered_name"] = "success"]
       ELSE /\ score' = score
            /\ feedback' = "error"
            /\ outcome' = [outcome EXCEPT !["answered_name"] = "error"]
    /\ UNCHANGED <<quiz_choice, answer, ox, geomvars>>

\* the button "정답 확인" of the naming quiz is pressed
CheckName ==
    /\ clicked' = "check_name"
    /\ IF ~answered["answered_name"]
       THEN /\ total' = total + 1
            /\ answered' = [answered EXCEPT !["answered_name"] = TRUE]
            /\ IF answer = quiz_choice
               THEN /\ score' = score + 1
                    /\ feedback' = "success"
                    /\ outcome' = [outcome EXCEPT !["answered_name"] = "success"]
               ELSE /\ score' = score
                    /\ feedback' = "error"
                    /\ outcome' = [outcome EXCEPT !["answered_name"] = "error"]
       ELSE /\ feedback' = "info"
            /\ UNCHANGED <<score, total, answered, outcome>>
    /\ UNCHANGED <<quiz_choice, answer, ox, geomvars>>

\* ---- faulty variants of the handler of "제출 i": a repeated correct answer
\* still scores; total is counted only for wrong answers; "O" is always taken
\* as correct; a wrong answer may be retried
SubmitOx_RepeatCanScore(i) ==
    LET answered_key == OxKey[i]
        correct == ox_qs[i]
        picked == IF ox[i] = "O" THEN TRUE ELSE FALSE
    IN  /\ clicked' = OxButton[i]
        /\ IF ~answered[answered_key]
           THEN /\ total' = total + 1
                /\ answered' = [answered EXCEPT ![answered_key] = TRUE]
                /\ IF picked = correct
                   THEN /\ score' = score + 1
                        /\ feedback' = "success"
                        /\ outcome' = [outcome EXCEPT ![answered_key] = "success"]
                   ELSE /\ score' = score
                        /\ feedback' = "error"
                        /\ outcome' = [outcome EXCEPT ![answered_key] = "error"]
           ELSE /\ feedback' = "info"
                /\ score' = IF picked = correct /\ score < total THEN score + 1 ELSE score
                /\ UNCHANGED <<total, answered, outcome>>
        /\ UNCHANGED <<quiz_choice, answer, ox, geomvars>>

SubmitOx_TotalOnError(i) ==
    LET answered_key == OxKey[i]
        correct == ox_qs[i]
        picked == IF ox[i] = "O" THEN TRUE ELSE FALSE
    IN  /\ clicked' = OxButton[i]
        /\ IF ~answered[answered_key]
           THEN /\ answered' = [answered EXCEPT ![answered_key] = TRUE]
                /\ IF picked = correct
                   THEN /\ score' = score + 1
                        /\ total' = total
                        /\ feedback' = "success"
                        /\ outcome' = [outcome EXCEPT ![answered_key] = "success"]
                   ELSE /\ score' = score
                        /\ total' = total + 1
                        /\ feedback' = "error"
                        /\ outcome' = [outcome EXCEPT ![answered_key] = "error"]
           ELSE /\ feedback' = "info"
                /\ UNCHANGED <<score, total, answered, outcome>>
        /\ UNCHANGED <<quiz_choice, answer, ox, geomvars>>

SubmitOx_PickedIsO(i) ==
    LET answered_key == OxKey[i]
        picked == IF ox[i] = "O" THEN TRUE ELSE FALSE
    IN  /\ clicked' = OxButton[i]
        /\ IF ~answered[answered_key]
           THEN /\ total' = total + 1
                /\ answered' = [answered EXCEPT ![answered_key] = TRUE]
                /\ IF picked
                   THEN /\ score' = score + 1
                        /\ feedback' = "success"
                        /\ outcome' = [outcome EXCEPT ![answered_key] = "success"]
                   ELSE /\ score' = score
                        /\ feedback' = "error"
                        /\ outcome' = [outcome EXCEPT ![answered_key] = "error"]
           ELSE /\ feedback' = "info"
                /\ UNCHANGED <<score, total, answered, outcome>>
        /\ UNCHANGED <<quiz_choice, answer, ox, geomvars>>

SubmitOx_RetryAfterError(i) ==
    LET answered_key == OxKey[i]
        correct == ox_qs[i]
        picked == IF ox[i] = "O" THEN TRUE ELSE FALSE
    IN  /\ clicked' = OxButton[i]
        /\ IF ~answered[answered_key]
           THEN /\ total' = IF outcome[answered_key] = "none" THEN total + 1 ELSE total
                /\ IF picked = correct
                   THEN /\ score' = score + 1
                        /\ answered' = [answered EXCEPT ![answered_key] = TRUE]
                        /\ feedback' = "success"
                        /\ outcome' = [outcome EXCEPT ![answered_key] = "success"]
                   ELSE /\ score' = score
                        /\ answered' = [answered EXCEPT ![answered_key] = TRUE]
                        /\ feedback' = "error"
                        /\ outcome' = [outcome EXCEPT ![answered_key] = "error"]
           ELSE /\ feedback' = "info"
                /\ answered' = [answered EXCEPT ![answered_key] = (outcome[answered_key] = "success")]
                /\ UNCHANGED <<score, total, outcome>>
        /\ UNCHANGED <<quiz_choice, answer, ox, geomvars>>

\* the button "제출 i" of OX question i is pressed
SubmitOx(i) ==
    LET answered_key == OxKey[i]
        correct == ox_qs[i]
        picked == IF ox[i] = "O" THEN TRUE ELSE FALSE
    IN  /\ clicked' = OxButton[i]
        /\ IF ~answered[answered_key]
           THEN /\ total' = total + 1
                /\ answered' = [answered EXCEPT ![answered_key] = TRUE]
                /\ IF picked = correct
                   THEN /\ score' = score + 1
                        /\ feedback' = "success"
                        /\ outcome' = [outcome EXCEPT ![answered_key] = "success"]
                   ELSE /\ score' = score
                        /\ feedback' = "error"
                        /\ outcome' = [outcome EXCEPT ![answered_key] = "error"]
           ELSE /\ feedback' = "info"
                /\ UNCHANGED <<score, total, answered, outcome>>
        /\ UNCHANGED <<quiz_choice, answer, ox, geomvars>>

Next ==
    \/ \E c \in Shapes : SelectQuizChoice(c)
    \/ \E a \in AnswerOptions : SelectAnswer(a)
    \/ \E i \in OxIds, c \in {"O", "X"} : SelectOx(i, c)
    \/ Rerun
    \/ CheckName
    \/ \E i \in OxIds : SubmitOx(i)

Spec == Init /\ [][Next]_vars

----------------------------------------------------------------------------
(* Properties of the quiz session, checked under Spec *)

\* no flag set, nothing counted
QuizCleared == score = 0 /\ total = 0 /\ \A k \in Keys : ~answered[k]

\* C1: a run in which the button of an already answered question is pressed
\* changes neither score nor total nor any answered flag, and shows the
\* "already submitted" message, whether or not the widgets hold the correct
\* answer.
RepeatSubmissionIsNoOp ==
    [][\A b \in Buttons :
          (clicked' = b /\ answered[KeyOf(b)]) =>
              /\ score' = score
              /\ total' = total
              /\ answered' = answered
              /\ feedback' = "info"]_vars

\* a correct answer given again after a wrong first one has been turned away
RepeatSubmissionRejected ==
    /\ clicked \in Buttons
    /\ feedback = "info"
    /\ IsCorrect(clicked)
    /\ outcome[KeyOf(clicked)] = "error"
    /\ total = 1 /\ score = 0

\* C2: 0 <= score <= total in every state of the session.
ScoreWithinTotal == 0 <= score /\ score <= total

\* some answers were right and some wrong
MixedScore == score = 2 /\ total = 4

\* C3: a run in which the button of a not yet answered question is pressed
\* sets that question's flag, adds exactly 1 to total, adds exactly 1 to
\* score if the widgets hold the correct answer and 0 otherwise, and leaves
\* every other flag as it was.
FirstSubmissionCounts ==
    [][\A b \in Buttons :
          (clicked' = b /\ ~answered[KeyOf(b)]) =>
              /\ answered'[KeyOf(b)]
              /\ total' = total + 1
              /\ score' = score + (IF IsCorrect(b) THEN 1 ELSE 0)
              /\ \A k \in Keys \ {KeyOf(b)} : answered'[k] = answered[k]]_vars

\* the scenario's end: question 1 answered right, question 2 answered wrong
\* just now, nothing else answered, (score, total) = (1, 2)
ScenarioEnd ==
    /\ outcome["answered_1"] = "success"
    /\ outcome["answered_2"] = "error"
    /\ clicked = "submit2" /\ feedback = "error"
    /\ ~answered["answered_3"] /\ ~answered["answered_name"]
    /\ score = 1 /\ total = 2

\* C4: no step clears an answered flag, and no step lowers score or total.
AnsweredIsPermanent ==
    [][/\ \A k \in Keys : answered[k] => answered'[k]
       /\ score' >= score
       /\ total' >= total]_vars

\* every question answered, and a button pressed once more
AllAnsweredAndPressedAgain ==
    /\ \A k \in Keys : answered[k]
    /\ clicked \in Buttons /\ feedback = "info"

\* C5 as stated: in every state a step that clears the flags and sets score
\* and total to 0 can be taken.
ResetAvailable == ENABLED (Next /\ QuizCleared')

\* C5 amended: no step brings the session back to the cleared state once a
\* submission has been counted.
NoWayBackToCleared == [][~QuizCleared => ~QuizCleared']_vars

\* all four questions counted, the naming quiz pressed again
FullSessionPressedAgain ==
    /\ total = 4
    /\ clicked = "check_name" /\ feedback = "info"

\* C9: total is the number of flags set, score is the number of questions
\* whose counted submission was correct, a flag is set exactly when a
\* submission was counted for it, and total is at most the number of questions.
TotalCountsAnswered ==
    /\ total = Cardinality({k \in Keys : answered[k]})
    /\ score = Cardinality({k \in Keys : outcome[k] = "success"})
    /\ \A k \in Keys : answered[k] <=> outcome[k] # "none"
    /\ total <= Cardinality(Keys)
    /\ Cardinality(Keys) = 4

\* three questions counted, one of them wrong
ThreeCounted ==
    /\ total = 3 /\ score = 2
    /\ ~answered["answered_2"]

\* C10: pressing the naming quiz's button with the placeholder selected and
\* the question unanswered counts as a wrong answer (flag set, total + 1,
\* score unchanged); and once the naming question is counted as wrong it
\* stays so, every later press of its button leaving score unchanged and
\* showing the "already submitted" message.
PlaceholderCountsAsWrong ==
    [][/\ (clicked' = "check_name" /\ answer = Placeholder /\ ~answered["answered_name"]) =>
              /\ answered'["answered_name"]
              /\ total' = total + 1
              /\ score' = score
              /\ outcome'["answered_name"] = "error"
       /\ outcome["answered_name"] = "error" =>
              /\ outcome'["answered_name"] = "error"
              /\ clicked' = "check_name" => (score' = score /\ feedback' = "info")]_vars

\* the placeholder has just been counted as a wrong answer
PlaceholderSubmitted ==
    /\ clicked = "check_name" /\ answer = Placeholder
    /\ feedback = "error"
    /\ answered["answered_name"]
    /\ total = 1 /\ score = 0

----------------------------------------------------------------------------
(* Tab 1: the geometry functions applied by the shape explorer.  The        *)
(* arguments are drawn from sets that reach beyond the sliders' ranges,     *)
(* since the functions accept any number.                                   *)

MaxLenK == 3
MaxAngK == 4

\* lengths: -0.5, 0, 0.5, ... and the 2.0 and 4.0 of the rectangle example
Lengths == {50 * k : k \in -1..MaxLenK} \cup {200, 400}

\* triangle angles, within the sliders' 5..170
TriAngles == {5, 50, 170} \cup {a \in {30 * k : k \in 1..MaxAngK} : a <= 170}

\* tilt angles: whole degrees, and one angle whose tangent is 5e-7
ParaAngles == {Deg(d) : d \in {0, 20, 80, 90, 180}} \cup {Atan2Deg(1, 2000000)}

NotRun == [kind |-> "unset", pts |-> <<>>]

InitGeom ==
    /\ FreshQuiz
    /\ gpc = "input"
    /\ coords = NotRun /\ trace = <<>> /\ notice = "none"
    /\ \/ /\ shape = "triangle" /\ quad_type = "none"
          /\ base \in Lengths /\ alpha \in TriAngles /\ beta \in TriAngles
          /\ width = 0 /\ height = 0 /\ angle = Deg(0) /\ radius = 0
       \/ /\ shape = "quad" /\ quad_type \in {"rectangle", "parallelogram", "rhombus"}
          /\ width \in Lengths /\ height \in Lengths
          /\ angle \in (IF quad_type = "parallelogram" THEN ParaAngles ELSE {Deg(20)})
          /\ base = 0 /\ alpha = 0 /\ beta = 0 /\ radius = 0
       \/ /\ shape = "circle" /\ quad_type = "none"
          /\ radius \in Lengths
          /\ base = 0 /\ alpha = 0 /\ beta = 0
          /\ width = 0 /\ height = 0 /\ angle = Deg(0)

\* the closed polyline of a list of points
Closed(pts) == pts \o <<pts[1]>>

\* what the right column leaves behind when the call has returned r: an
\* exception ends the run before anything is drawn
Drawn(r, message) ==
    IF r.kind = "coords"
    THEN trace' = Closed(r.pts) /\ notice' = message
    ELSE trace' = <<>> /\ notice' = "exception"

ShowTriangle ==
    /\ gpc = "input" /\ shape = "triangle"
    /\ coords' = draw_triangle(base, alpha, beta)
    /\ IF coords' = None
       THEN trace' = <<>> /\ notice' = "warning"
       ELSE Drawn(coords', "info")
    /\ gpc' = "shown"
    /\ UNCHANGED <<shape, quad_type, base, alpha, beta, width, height, angle, radius, quizvars>>

ShowRectangle ==
    /\ gpc = "input" /\ shape = "quad" /\ quad_type = "rectangle"
    /\ coords' = draw_rectangle(width, height)
    /\ Drawn(coords', "success")
    /\ gpc' = "shown"
    /\ UNCHANGED <<shape, quad_type, base, alpha, beta, width, height, angle, radius, quizvars>>

ShowRhombus ==
    /\ gpc = "input" /\ shape = "quad" /\ quad_type = "rhombus"
    /\ LET side == width
           \* math.atan2(height, side / 2 if side != 0 else 1); atan2(y, x) is
           \* atan2(2y, 2x), and 1 is 100 hundredths
           angle_for_rhombus == IF side # 0 THEN Atan2Deg(2 * height, side)
                                ELSE Atan2Deg(height, 100)
       IN  coords' = draw_parallelogram(side, height, angle_for_rhombus)
    /\ Drawn(coords', "success")
    /\ gpc' = "shown"
    /\ UNCHANGED <<shape, quad_type, base, alpha, beta, width, height, angle, radius, quizvars>>

ShowParallelogram ==
    /\ gpc = "input" /\ shape = "quad" /\ quad_type = "parallelogram"
    /\ coords' = draw_parallelogram(width, height, angle)
    /\ Drawn(coords', "info")
    /\ gpc' = "shown"
    /\ UNCHANGED <<shape, quad_type, base, alpha, beta, width, height, angle, radius, quizvars>>

ShowCircle ==
    /\ gpc = "input" /\ shape = "circle"
    /\ coords' = draw_circle(radius, NumPoints)
    /\ trace' = coords'.pts /\ notice' = "info"
    /\ gpc' = "shown"
    /\ UNCHANGED <<shape, quad_type, base, alpha, beta, width, height, angle, radius, quizvars>>

NextGeom ==
    \/ ShowTriangle
    \/ ShowRectangle
    \/ ShowRhombus
    \/ ShowParallelogram
    \/ ShowCircle

SpecGeom == InitGeom /\ [][NextGeom]_vars

----------------------------------------------------------------------------
(* Properties of the geometry functions, checked under SpecGeom *)

\* C6: when the explorer has run for a triangle with alpha + beta >= 180,
\* draw_triangle has returned None (no coordinates), nothing is drawn and the
\* warning is shown; with alpha + beta < 180 it has returned exactly three
\* vertices, the first (0, 0) and the second (base, 0), and no warning is shown.
TriangleValidity ==
    (gpc = "shown" /\ shape = "triangle") =>
        IF alpha + beta >= 180
        THEN coords = None /\ trace = <<>> /\ notice = "warning"
        ELSE /\ coords.kind = "coords"
             /\ Len(coords.pts) = 3
             /\ coords.pts[1] = <<0, 0>>
             /\ coords.pts[2] = <<base, 0>>
             /\ Len(trace) = 4
             /\ notice = "info"

\* the angles add up to exactly 180 and the warning is shown
FlatTriangleWarned ==
    /\ gpc = "shown" /\ shape = "triangle"
    /\ alpha + beta = 180 /\ base > 0
    /\ notice = "warning"

\* the explorer's shape has a length or radius <= 0
NonPositiveLength ==
    \/ shape = "triangle" /\ base <= 0
    \/ shape = "quad" /\ (width <= 0 \/ height <= 0)
    \/ shape = "circle" /\ radius <= 0

\* C7 as stated: with a length or radius <= 0 the computation reports
\* InvalidDimension and returns no coordinates.
DimensionsValidated ==
    (gpc = "shown" /\ NonPositiveLength) =>
        coords.kind = "InvalidDimension" /\ trace = <<>>

\* C7 amended: with a length or radius <= 0 no InvalidDimension is reported:
\* the rectangle, parallelogram, rhombus and circle computations return
\* coordinates all the same, and the triangle computation returns None or
\* coordinates by its angles alone.
DimensionsNotChecked ==
    (gpc = "shown" /\ NonPositiveLength) =>
        /\ coords.kind # "InvalidDimension"
        /\ shape # "triangle" => (coords.kind = "coords" /\ trace # <<>>)
        /\ shape = "triangle" =>
              coords.kind = (IF alpha + beta >= 180 THEN "None" ELSE "coords")

\* a rectangle of width 0 and negative height has been drawn
EmptyRectangleDrawn ==
    /\ gpc = "shown" /\ shape = "quad" /\ quad_type = "rectangle"
    /\ width = 0 /\ height < 0
    /\ coords.kind = "coords" /\ Len(trace) = 5

\* abs(tan) <= 1e-6 for an angle of the model
TangentAtMostEps(a) ==
    \/ a.tag = "deg" /\ a.a % 180 = 0
    \/ a.tag = "atan2" /\ Abs(a.a) <= Abs(a.b) \div 1000000

\* C8: for width, height > 0 the rectangle outline is
\* (0,0), (width,0), (width,height), (0,height), in particular for 4 by 2;
\* and the parallelogram outline for a tilt angle whose tangent is at most
\* 1e-6 in magnitude is that same outline: coordinates, not a division by zero.
RectangleOutline ==
    (gpc = "shown" /\ shape = "quad" /\ width > 0 /\ height > 0) =>
        LET rect == << <<0, 0>>, <<width, 0>>, <<width, height>>, <<0, height>> >>
        IN  /\ quad_type = "rectangle" =>
                 /\ coords = Coords(rect)
                 /\ (width = 400 /\ height = 200) =>
                        coords.pts = << <<0, 0>>, <<400, 0>>, <<400, 200>>, <<0, 200>> >>
            /\ (quad_type = "parallelogram" /\ TangentAtMostEps(angle)) =>
                 /\ coords.kind = "coords"
                 /\ coords.pts = rect
                 /\ coords.pts[4][1] = 0

\* a 4 by 2 parallelogram tilted by an angle of tangent 5e-7 has been drawn
TinyTiltDrawn ==
    /\ gpc = "shown" /\ shape = "quad" /\ quad_type = "parallelogram"
    /\ width = 400 /\ height = 200
    /\ angle = Atan2Deg(1, 2000000)
    /\ coords.kind = "coords"

============================================================================
